---- MODULE Spec2Model ----
(***************************************************************************)
(* jira-confluence-mcp, src/main.py: the two tools with control flow.      *)
(*                                                                         *)
(*   get_descendant_pages_confluence  (the Hierarchy Walker, "buildTree")  *)
(*   get_page_content_with_gliffy_confluence  (the Macro Rewriter)         *)
(*                                                                         *)
(* One behaviour of the model is one call of one of the two tools.  The    *)
(* remote Confluence server is the environment: every HTTP response is an  *)
(* input chosen when the blocking requests.get returns.                    *)
(*                                                                         *)
(* Markup is a sequence of tokens.  Every token is the text it stands for, *)
(* so the document is the concatenation of its tokens.  ">" is always a    *)
(* token of its own and no literal of the regular expression can begin or  *)
(* end inside a token, so matching token by token is matching character    *)
(* by character.                                                           *)
(***************************************************************************)
EXTENDS Integers, Sequences, FiniteSets, TLC

(* ---------------------------------------------------------------- bounds *)
\* number of pages in the remote hierarchy
MaxPages == 4
\* number of building blocks a page's markup is made of
MaxSegs == 3

VARIABLES
  mode,       \* which tool this behaviour calls: "walk" or "rewrite"
  \* --- the remote hierarchy and the arguments of the call
  hier,       \* hier[p]: the ids the server lists as children of page p, in order
  rootId,     \* argument page_id
  rootTitle,  \* argument title
  \* --- get_descendant_pages_confluence
  nodes,      \* the dict objects created so far; nodes[1] is root
  queue,      \* collections.deque of references (indices into nodes)
  current,    \* current_node (0: none)
  calls,      \* node references get_child_pages_confluence was called for, in order
  enq,        \* node references appended to queue, in order
  wfails,     \* number of calls of get_child_pages_confluence that raised
  wresult,    \* what the caller got back: NoValue or <<the returned tree>>
  wpc,        \* "idle" | "loop" | "listing" | "returned" | "failed"
  \* --- get_page_content_with_gliffy_confluence
  markup,     \* the page's markup on the server: content["body"]["storage"]["value"]
  pos,        \* re.sub: where the next search starts
  out,        \* re.sub: the pieces joined so far
  spans,      \* <<start, end>> of every match found, in order
  fetched,    \* filenames requested from get_attachment_content_confluence, in order
  responses,  \* the HTTP responses those requests got, in order
  repls,      \* the strings repl returned, in order
  rresult,    \* what the caller got back: NoValue or <<the rewritten markup>>
  rpc         \* "idle" | "page" | "scan" | "fetching" | "returned" | "failed"

walkVars == <<nodes, queue, current, calls, enq, wfails, wresult, wpc>>
rewriteVars == <<markup, pos, out, spans, fetched, responses, repls, rresult, rpc>>
inputVars == <<mode, hier, rootId, rootTitle>>
vars == <<inputVars, walkVars, rewriteVars>>

\* wresult and rresult hold <<v>> once v was returned to the caller
NoValue == <<>>

(***************************************************************************)
(* The remote page hierarchy                                               *)
(***************************************************************************)
Pages == 1..MaxPages

\* the sequences of distinct elements of S
RECURSIVE DistinctSeqs(_)
DistinctSeqs(S) ==
  {<<>>} \cup UNION {{<<x>> \o s : s \in DistinctSeqs(S \ {x})} : x \in S}

\* Hierarchies(n): a listing for each of the pages 1..n.  Confluence keeps pages
\* in a hierarchy without cycles; pages are numbered so that a child has a
\* greater number than its parent.  A page may be listed under two parents, so
\* that tree-shaped hierarchies are a proper subset of the inputs.
RECURSIVE Hierarchies(_)
Hierarchies(n) ==
  IF n = 0 THEN {<<>>}
  ELSE {Append(h, s) : h \in Hierarchies(n - 1), s \in DistinctSeqs((n + 1)..MaxPages)}

\* response_json["page"]["results"][i]["title"] of page p
PageTitle(p) == "Page " \o ToString(p)

\* argument title: the default and a given one
RootTitles == {"", "Home"}

Range(s) == {s[i] : i \in 1..Len(s)}

(***************************************************************************)
(* requests                                                                *)
(***************************************************************************)
\* lines 173, 187, 201, 327: response.raise_for_status() raises for the client
\* and server error statuses, 400 to 599, and for no other status
RaisesForStatus(resp) == 400 <= resp.status /\ resp.status < 600

(***************************************************************************)
(* get_child_pages_confluence                                              *)
(***************************************************************************)
\* what line 326 may come back with; results: whether the JSON body holds
\* ["page"]["results"] (else line 331 raises KeyError)
ListingResponses ==
  {[status |-> 200, results |-> TRUE],
   [status |-> 200, results |-> FALSE],
   [status |-> 404, results |-> FALSE],
   [status |-> 500, results |-> FALSE],
   [status |-> 600, results |-> TRUE]}

\* lines 329-332: one fresh dict per listed page
ChildDicts(listing) ==
  [i \in 1..Len(listing) |-> [id |-> listing[i], title |-> PageTitle(listing[i]), children |-> <<>>]]

\* the tree below a node reference: the dict with its children dicts nested
RECURSIVE Materialize(_, _)
Materialize(ns, n) ==
  [id |-> ns[n].id, title |-> ns[n].title,
   children |-> [i \in 1..Len(ns[n].children) |-> Materialize(ns, ns[n].children[i])]]

(***************************************************************************)
(* get_descendant_pages_confluence                                         *)
(***************************************************************************)
\* lines 358-360
WalkInit ==
  /\ mode = "walk"
  /\ nodes = <<[id |-> rootId, title |-> rootTitle, children |-> <<>>]>>
  /\ queue = <<1>>
  /\ enq = <<1>>
  /\ current = 0
  /\ calls = <<>>
  /\ wfails = 0
  /\ wresult = NoValue
  /\ wpc = "loop"

WalkIdle ==
  /\ nodes = <<>> /\ queue = <<>> /\ enq = <<>> /\ current = 0 /\ calls = <<>>
  /\ wfails = 0 /\ wresult = NoValue /\ wpc = "idle"

\* lines 361-363 up to requests.get being sent (line 326)
ListCall ==
  /\ wpc = "loop"
  /\ queue # <<>>
  /\ current' = Head(queue)
  /\ queue' = Tail(queue)
  /\ calls' = Append(calls, Head(queue))
  /\ wpc' = "listing"
  /\ UNCHANGED <<nodes, enq, wfails, wresult, inputVars, rewriteVars>>

\* lines 364-366 without line 366: the children are never put on the queue
AppendChildren_NoEnqueue(kids) ==
  LET first == Len(nodes) + 1
      refs == [i \in 1..Len(kids) |-> first + i - 1]
  IN /\ nodes' = [(nodes \o kids) EXCEPT ![current].children = @ \o refs]
     /\ queue' = queue
     /\ enq' = enq

\* lines 364-366 with line 366 run twice for every child
AppendChildren_EnqueueTwice(kids) ==
  LET first == Len(nodes) + 1
      refs == [i \in 1..Len(kids) |-> first + i - 1]
  IN /\ nodes' = [(nodes \o kids) EXCEPT ![current].children = @ \o refs]
     /\ queue' = queue \o refs \o refs
     /\ enq' = enq \o refs \o refs

\* lines 364-366 with insert(0, child_page) for append(child_page) in line 365
AppendChildren_Prepend(kids) ==
  LET first == Len(nodes) + 1
      refs == [i \in 1..Len(kids) |-> first + i - 1]
      back == [i \in 1..Len(kids) |-> first + Len(kids) - i]
  IN /\ nodes' = [(nodes \o kids) EXCEPT ![current].children = back \o @]
     /\ queue' = queue \o refs
     /\ enq' = enq \o refs

\* lines 364-366 for the children dicts kids
AppendChildren(kids) ==
  LET first == Len(nodes) + 1
      refs == [i \in 1..Len(kids) |-> first + i - 1]
  IN /\ nodes' = [(nodes \o kids) EXCEPT ![current].children = @ \o refs]
     /\ queue' = queue \o refs
     /\ enq' = enq \o refs

\* line 326 returns, line 327 does not raise: lines 328-332, then 364-366
ListReturn ==
  /\ wpc = "listing"
  /\ {resp \in ListingResponses : ~RaisesForStatus(resp) /\ resp.results} # {}
  /\ AppendChildren(ChildDicts(hier[nodes[current].id]))
  /\ current' = 0
  /\ wpc' = "loop"
  /\ UNCHANGED <<calls, wfails, wresult, inputVars, rewriteVars>>

\* line 327 or 331 raises and the loop catches it and goes on with the next node
ListFail_Swallowed ==
  /\ wpc = "listing"
  /\ {resp \in ListingResponses : RaisesForStatus(resp) \/ ~resp.results} # {}
  /\ wfails' = wfails + 1
  /\ current' = 0
  /\ wpc' = "loop"
  /\ UNCHANGED <<nodes, queue, calls, enq, wresult, inputVars, rewriteVars>>

\* line 327 (raise_for_status) or line 331 (KeyError) raises; nothing catches
\* it up to the caller
ListFail ==
  /\ wpc = "listing"
  /\ {resp \in ListingResponses : RaisesForStatus(resp) \/ ~resp.results} # {}
  /\ wfails' = wfails + 1
  /\ wpc' = "failed"
  /\ UNCHANGED <<nodes, queue, current, calls, enq, wresult, inputVars, rewriteVars>>

\* line 361 as "if queue:": line 367 is reached after the first pass
WalkReturn_AfterFirstPass ==
  /\ wpc = "loop"
  /\ calls # <<>>
  /\ wresult' = <<Materialize(nodes, 1)>>
  /\ wpc' = "returned"
  /\ UNCHANGED <<nodes, queue, current, calls, enq, wfails, inputVars, rewriteVars>>

\* line 361 finds the deque empty, line 367
WalkReturn ==
  /\ wpc = "loop"
  /\ queue = <<>>
  /\ wresult' = <<Materialize(nodes, 1)>>
  /\ wpc' = "returned"
  /\ UNCHANGED <<nodes, queue, current, calls, enq, wfails, inputVars, rewriteVars>>

(***************************************************************************)
(* Markup                                                                  *)
(***************************************************************************)
SM == "<ac:structured-macro"
SE == "</ac:structured-macro"
GT == ">"
SP == " "
NameGliffy == "ac:name=\"gliffy\""
NameCode == "ac:name=\"code\""
NameToc == "ac:name=\"toc\""
MacroId == "ac:macro-id=\"7\""
ParamName == "<ac:parameter ac:name=\"name\""
ParamLanguage == "<ac:parameter ac:name=\"language\""
ParamEnd == "</ac:parameter"
BodyOpen == "<ac:plain-text-body"
BodyEnd == "</ac:plain-text-body"
CDataOpen == "<![CDATA["
CDataEnd == "]]"

\* the building blocks of the pages' markup
Filenames == {"diagram1", "diagram2"}
\* a gliffy macro as Confluence stores it: the name attribute, then more attributes
GliffyMacro(f) ==
  <<SM, SP, NameGliffy, SP, MacroId, GT, ParamName, GT, f, ParamEnd, GT, SE, GT>>
\* a gliffy macro whose opening tag has the name attribute alone
GliffyBareTag(f) ==
  <<SM, SP, NameGliffy, GT, ParamName, GT, f, ParamEnd, GT, SE, GT>>
\* a gliffy macro with no name parameter
GliffyNoName == <<SM, SP, NameGliffy, SP, MacroId, GT, SE, GT>>
\* another macro, with a parameter called name
OtherMacro(f) ==
  <<SM, SP, NameToc, SP, MacroId, GT, ParamName, GT, f, ParamEnd, GT, SE, GT>>
Blocks ==
  {<<"intro">>, <<"<p", GT, "outro", "</p", GT>>, GliffyNoName}
    \cup {GliffyMacro(f) : f \in Filenames}
    \cup {GliffyBareTag("diagram1"), OtherMacro("diagram1")}

RECURSIVE Documents(_)
Documents(n) ==
  IF n = 0 THEN {<<>>}
  ELSE Documents(n - 1) \cup {d \o b : d \in Documents(n - 1), b \in Blocks}

(***************************************************************************)
(* The regular expression of lines 230-234, searched with re.DOTALL        *)
(***************************************************************************)
NoMatch == [start |-> 0, end |-> 0, g1 |-> <<>>]

\* the first index >= from where lit occurs in text, 0 when there is none:
\* what a lazy ".*?" followed by the literal lit finds (DOTALL: "." is any
\* character)
IndexFrom(text, lit, from) ==
  LET hits == {i \in from..(Len(text) - Len(lit) + 1) :
                 SubSeq(text, i, i + Len(lit) - 1) = lit}
  IN IF hits = {} THEN 0 ELSE CHOOSE i \in hits : \A j \in hits : i <= j

\* line 231: <ac:structured-macro[^>]+ac:name="gliffy"[^>]+> starting at s.
\* Neither [^>]+ crosses a ">", so the tag ends at the first ">" after s; each
\* [^>]+ takes at least one character.  The index of that ">", or 0.
OpenTagEnd(text, s) ==
  LET e == IndexFrom(text, <<GT>>, s + 1)
  IN IF /\ s <= Len(text)
        /\ text[s] = SM
        /\ e # 0
        /\ \E i \in (s + 2)..(e - 2) : text[i] = NameGliffy
     THEN e ELSE 0

\* lines 231-233: the match the pattern has at s, or NoMatch.  Every ".*?" takes
\* the fewest characters that let the rest match, which is up to the first
\* occurrence of the literal that follows it.
MatchAt(text, s) ==
  LET e == OpenTagEnd(text, s)
      p == IF e = 0 THEN 0 ELSE IndexFrom(text, <<ParamName, GT>>, e + 1)
      q == IF p = 0 THEN 0 ELSE IndexFrom(text, <<ParamEnd, GT>>, p + 2)
      r == IF q = 0 THEN 0 ELSE IndexFrom(text, <<SE, GT>>, q + 2)
  IN IF r = 0 THEN NoMatch
     ELSE [start |-> s, end |-> r + 1, g1 |-> SubSeq(text, p + 2, q - 1)]

\* re: the leftmost match starting at or after from
Search(text, from) ==
  LET starts == {s \in from..Len(text) : MatchAt(text, s) # NoMatch}
  IN IF starts = {} THEN NoMatch
     ELSE MatchAt(text, CHOOSE s \in starts : \A t \in starts : s <= t)

(***************************************************************************)
(* get_attachment_content_confluence                                       *)
(***************************************************************************)
JsonBytes == "{\"a\":1}"
InvalidUtf8 == "\\xff"
\* what requests.get may come back with
HttpResponses ==
  {[status |-> 200, content |-> <<>>],
   [status |-> 200, content |-> <<JsonBytes>>],
   [status |-> 200, content |-> <<InvalidUtf8>>],
   [status |-> 404, content |-> <<>>],
   [status |-> 404, content |-> <<"Not Found">>],
   [status |-> 500, content |-> <<>>],
   [status |-> 600, content |-> <<JsonBytes>>]}

(***************************************************************************)
(* get_page_content_confluence                                             *)
(***************************************************************************)
\* what line 200 may come back with; value: whether the JSON body holds
\* ["body"]["storage"]["value"] (else lines 250-251 raise KeyError)
PageResponses ==
  {[status |-> 200, value |-> TRUE],
   [status |-> 200, value |-> FALSE],
   [status |-> 404, value |-> FALSE],
   [status |-> 500, value |-> FALSE],
   [status |-> 600, value |-> TRUE]}

(***************************************************************************)
(* get_page_content_with_gliffy_confluence                                 *)
(***************************************************************************)
\* line 241: bytes.decode("utf-8") raises UnicodeDecodeError
DecodeRaises(content) == InvalidUtf8 \in Range(content)

\* lines 239-247: what repl returns for the attachment content
Repl(content) ==
  IF content = <<>> THEN <<>>
  ELSE <<SM, SP, NameCode, GT, ParamLanguage, GT, "json", ParamEnd, GT,
         BodyOpen, GT, CDataOpen>> \o content \o <<CDataEnd, GT, BodyEnd, GT, SE, GT>>

\* line 249 has called get_page_content_confluence, whose request (line 200)
\* is outstanding
RewriteInit ==
  /\ mode = "rewrite"
  /\ pos = 1 /\ out = <<>> /\ spans = <<>> /\ fetched = <<>>
  /\ responses = <<>> /\ repls = <<>> /\ rresult = NoValue /\ rpc = "page"

\* line 200 returns resp, lines 201-202 and 249; lines 250-251 read the markup
\* and re.sub starts at its beginning
PageReturn(resp) ==
  /\ rpc = "page"
  /\ ~RaisesForStatus(resp)
  /\ resp.value
  /\ rpc' = "scan"
  /\ UNCHANGED <<markup, pos, out, spans, fetched, responses, repls, rresult, inputVars, walkVars>>

\* line 201 (raise_for_status) or lines 250-251 (KeyError) raise; nothing
\* catches it up to the caller
PageFail(resp) ==
  /\ rpc = "page"
  /\ RaisesForStatus(resp) \/ ~resp.value
  /\ rpc' = "failed"
  /\ UNCHANGED <<markup, pos, out, spans, fetched, responses, repls, rresult, inputVars, walkVars>>

RewriteIdle ==
  /\ markup = <<>> /\ pos = 1 /\ out = <<>> /\ spans = <<>> /\ fetched = <<>>
  /\ responses = <<>> /\ repls = <<>> /\ rresult = NoValue /\ rpc = "idle"

\* the next match is looked for, and its attachment requested, while the
\* request for the match before it is still outstanding
ScanMatch_NoWait ==
  LET m == Search(markup, pos)
  IN /\ rpc \in {"scan", "fetching"}
     /\ m # NoMatch
     /\ out' = out \o SubSeq(markup, pos, m.start - 1)
     /\ spans' = Append(spans, <<m.start, m.end>>)
     /\ fetched' = Append(fetched, m.g1)
     /\ pos' = m.end + 1
     /\ rpc' = "fetching"
     /\ UNCHANGED <<markup, responses, repls, rresult, inputVars, walkVars>>

\* re.sub finds the next match, copies the text before it and calls repl, which
\* (lines 237-238, 186) sends the request for the attachment
ScanMatch ==
  LET m == Search(markup, pos)
  IN /\ rpc = "scan"
     /\ m # NoMatch
     /\ out' = out \o SubSeq(markup, pos, m.start - 1)
     /\ spans' = Append(spans, <<m.start, m.end>>)
     /\ fetched' = Append(fetched, m.g1)
     /\ pos' = m.end + 1
     /\ rpc' = "fetching"
     /\ UNCHANGED <<markup, responses, repls, rresult, inputVars, walkVars>>

\* the text after the last match is not copied
ScanEnd_DropsTail ==
  /\ rpc = "scan"
  /\ Search(markup, pos) = NoMatch
  /\ out' = out
  /\ rresult' = <<out'>>
  /\ pos' = Len(markup) + 1
  /\ rpc' = "returned"
  /\ UNCHANGED <<markup, spans, fetched, responses, repls, inputVars, walkVars>>

\* re.sub finds no further match, copies the rest; lines 250 and 253
ScanEnd ==
  /\ rpc = "scan"
  /\ Search(markup, pos) = NoMatch
  /\ out' = out \o SubSeq(markup, pos, Len(markup))
  /\ rresult' = <<out'>>
  /\ pos' = Len(markup) + 1
  /\ rpc' = "returned"
  /\ UNCHANGED <<markup, spans, fetched, responses, repls, inputVars, walkVars>>

\* line 186 returns resp; lines 187-188 and 239-247; re.sub appends the result
FetchReturn(resp) ==
  /\ rpc = "fetching"
  /\ ~RaisesForStatus(resp)
  /\ ~DecodeRaises(resp.content)
  /\ responses' = Append(responses, resp)
  /\ repls' = Append(repls, Repl(resp.content))
  /\ out' = out \o Repl(resp.content)
  /\ rpc' = "scan"
  /\ UNCHANGED <<markup, pos, spans, fetched, rresult, inputVars, walkVars>>

\* line 187 or line 241 raises; nothing catches it up to the caller
FetchFail(resp) ==
  /\ rpc = "fetching"
  /\ RaisesForStatus(resp) \/ DecodeRaises(resp.content)
  /\ responses' = Append(responses, resp)
  /\ rpc' = "failed"
  /\ UNCHANGED <<markup, pos, out, spans, fetched, repls, rresult, inputVars, walkVars>>

FetchReturns == \E resp \in HttpResponses : FetchReturn(resp)
FetchFails == \E resp \in HttpResponses : FetchFail(resp)
PageReturns == \E resp \in PageResponses : PageReturn(resp)
PageFails == \E resp \in PageResponses : PageFail(resp)

(***************************************************************************)
(* One call of one tool                                                    *)
(***************************************************************************)
Init ==
  \/ /\ hier \in Hierarchies(MaxPages)
     /\ rootId \in Pages
     /\ rootTitle \in RootTitles
     /\ WalkInit
     /\ RewriteIdle
  \/ /\ hier = <<>> /\ rootId = 0 /\ rootTitle = ""
     /\ markup \in Documents(MaxSegs)
     /\ RewriteInit
     /\ WalkIdle

Next ==
  \/ ListCall
  \/ ListReturn
  \/ ListFail
  \/ WalkReturn
  \/ PageReturns
  \/ PageFails
  \/ ScanMatch
  \/ ScanEnd
  \/ FetchReturns
  \/ FetchFails

Spec == Init /\ [][Next]_vars

\* the walk runs in the calling thread, which takes its next step whenever it
\* has one: a blocking request comes back, a loop iteration follows the last
WalkStep == ListCall \/ ListReturn \/ ListFail \/ WalkReturn
FairSpec == Spec /\ WF_vars(WalkStep)

(***************************************************************************)
(* Properties of get_descendant_pages_confluence                           *)
(***************************************************************************)
\* the pages below p in the remote hierarchy
RECURSIVE Descendants(_)
Descendants(p) == UNION {{c} \cup Descendants(c) : c \in Range(hier[p])}

\* below the root no page is listed under two parents
TreeShaped ==
  /\ mode = "walk"
  /\ \A c \in Descendants(rootId) :
       Cardinality({p \in {rootId} \cup Descendants(rootId) : c \in Range(hier[p])}) = 1

\* the dicts of a returned tree, the returned root included
RECURSIVE SubTrees(_)
SubTrees(t) == {t} \cup UNION {SubTrees(t.children[i]) : i \in 1..Len(t.children)}

\* the number of dicts in a returned tree
RECURSIVE TreeSize(_)
RECURSIVE ForestSize(_)
TreeSize(t) == 1 + ForestSize(t.children)
ForestSize(ts) == IF ts = <<>> THEN 0 ELSE TreeSize(Head(ts)) + ForestSize(Tail(ts))

\* the tree the caller got
Tree == wresult[1]

ChildIds(t) == [i \in 1..Len(t.children) |-> t.children[i].id]
NoDuplicates(s) == \A i, j \in 1..Len(s) : s[i] = s[j] => i = j
Leaf(p) == [id |-> p, title |-> PageTitle(p), children |-> <<>>]

\* C1 (tree completeness): for a tree-shaped hierarchy, in the returned tree a
\* node X has a child with id Y exactly when the listing of X holds Y, for every
\* node X of the tree, and the ids of the tree are the root and its descendants.
C1_TreeCompleteness ==
  (wpc = "returned" /\ TreeShaped) =>
    /\ Tree.id = rootId
    /\ \A x \in SubTrees(Tree) : Range(ChildIds(x)) = Range(hier[x.id])
    /\ {x.id : x \in SubTrees(Tree)} = {rootId} \cup Descendants(rootId)

\* the hierarchy A->{B,C}, B->{D} gives A[B[D[]], C[]]
C1_Witness ==
  /\ wpc = "returned"
  /\ rootId = 1
  /\ hier[1] = <<2, 3>> /\ hier[2] = <<4>> /\ hier[3] = <<>> /\ hier[4] = <<>>
  /\ Tree = [id |-> 1, title |-> rootTitle,
             children |-> <<[id |-> 2, title |-> PageTitle(2), children |-> <<Leaf(4)>>],
                            Leaf(3)>>]

\* C2 (no duplication): for a tree-shaped hierarchy every node is put on the
\* queue exactly once and no two nodes carry the same page id, at every point
\* of the traversal; the returned tree holds each id once.
C2_NoDuplication ==
  TreeShaped =>
    /\ NoDuplicates(enq)
    /\ Range(enq) = 1..Len(nodes)
    /\ NoDuplicates([i \in 1..Len(nodes) |-> nodes[i].id])
    /\ wpc = "returned" =>
         TreeSize(Tree) = Cardinality({x.id : x \in SubTrees(Tree)})

C2_Witness ==
  /\ wpc = "returned"
  /\ TreeShaped
  /\ TreeSize(Tree) = MaxPages
  /\ Len(enq) = MaxPages

\* C3 (fan-out order): in the returned tree the ids of every node's children
\* are, in order, the listing of that node.
C3_FanOutOrder ==
  wpc = "returned" =>
    \A x \in SubTrees(Tree) : ChildIds(x) = hier[x.id]

\* a listing that is not in the order the pages are numbered, two levels deep
C3_Witness ==
  /\ wpc = "returned"
  /\ rootId = 1
  /\ hier[1] = <<3, 2>>
  /\ hier[3] = <<4>>
  /\ ChildIds(Tree) = <<3, 2>>
  /\ ChildIds(Tree.children[1]) = <<4>>

\* C8 (failure atomicity): once a listing request has raised, the call has
\* failed: the caller has no tree, the failed request is the last one made and
\* no node was asked for twice.
C8_FailureAtomicity ==
  wfails > 0 =>
    /\ wpc = "failed"
    /\ wresult = NoValue
    /\ wfails = 1
    /\ calls # <<>> /\ calls[Len(calls)] = current
    /\ NoDuplicates(calls)

\* the request for a grandchild fails, after part of the tree was built
C8_Witness ==
  /\ wpc = "failed"
  /\ Len(calls) >= 3
  /\ Len(nodes) >= 3
  /\ wresult = NoValue

\* C10 (termination): a walk of a tree-shaped hierarchy ends (returns unless a
\* listing request raises); it returns exactly when the loop finds the queue
\* empty, and then get_child_pages_confluence has been called once for every
\* node; a node's children change only in the step that handles its own
\* listing, from empty.
C10_Termination ==
  /\ (TreeShaped ~> (wpc = "returned" \/ wfails > 0))
  /\ [](wpc = "returned" =>
          /\ queue = <<>>
          /\ NoDuplicates(calls)
          /\ Range(calls) = 1..Len(nodes))
  /\ [][/\ (wpc = "loop" /\ queue = <<>>) => wpc' = "returned"
        /\ wpc' = "returned" => (wpc = "loop" /\ queue = <<>>)
        /\ \A n \in 1..Len(nodes) :
             nodes'[n].children # nodes[n].children =>
               /\ wpc = "listing" /\ n = current
               /\ nodes[n].children = <<>>
               /\ n = calls[Len(calls)]]_vars

C10_Witness ==
  /\ wpc = "returned"
  /\ TreeShaped
  /\ Len(calls) = MaxPages
  /\ wfails = 0

(***************************************************************************)
(* Properties of get_page_content_with_gliffy_confluence                   *)
(***************************************************************************)
\* lines 250-252: the matches re.sub goes through in text from index from on,
\* each search starting where the match before it ended
RECURSIVE MatchesFrom(_, _)
MatchesFrom(text, from) ==
  LET m == Search(text, from)
  IN IF m = NoMatch THEN <<>> ELSE <<m>> \o MatchesFrom(text, m.end + 1)

AllMatches == MatchesFrom(markup, 1)

\* text with the spans sp[k..] replaced by rp[k..], copied from index from on
RECURSIVE Splice(_, _, _, _, _)
Splice(text, sp, rp, k, from) ==
  IF k > Len(sp) THEN SubSeq(text, from, Len(text))
  ELSE SubSeq(text, from, sp[k][1] - 1) \o rp[k] \o Splice(text, sp, rp, k + 1, sp[k][2] + 1)

\* the answer to the attachment request says there is no such attachment: the
\* server's not-found status, or an answer that is not an error and has no
\* content
ReportsAbsent(resp) ==
  \/ resp.status = 404
  \/ ~RaisesForStatus(resp) /\ resp.content = <<>>

\* C4 (order preservation): the returned markup is the fetched markup with the
\* matched spans, which lie one after another, replaced in order by what repl
\* returned for them and every token outside them kept in place; without a
\* match it is the fetched markup.
C4_OrderPreservation ==
  rpc = "returned" =>
    /\ Len(repls) = Len(spans)
    /\ LET all == AllMatches
       IN spans = [k \in 1..Len(all) |-> <<all[k].start, all[k].end>>]
    /\ \A k \in 1..Len(spans) :
         /\ 1 <= spans[k][1] /\ spans[k][1] <= spans[k][2] /\ spans[k][2] <= Len(markup)
         /\ k > 1 => spans[k - 1][2] < spans[k][1]
    /\ rresult = <<Splice(markup, spans, repls, 1, 1)>>
    /\ spans = <<>> => rresult = <<markup>>

\* two macros replaced, with text before, between or after them
C4_Witness ==
  /\ rpc = "returned"
  /\ Len(spans) = 2
  /\ spans[1][1] > 1 \/ spans[2][1] > spans[1][2] + 1 \/ spans[2][2] < Len(markup)
  /\ repls[1] # <<>> /\ repls[2] = <<>>
  /\ rresult # <<markup>>

\* C9 (fetch ordering): every match found has had exactly one request, in match
\* order from left to right; at most one request is outstanding, and only
\* while the call waits for it; the markup is returned after the last response.
C9_FetchOrdering ==
  LET all == AllMatches
  IN /\ Len(fetched) = Len(spans)
     /\ Len(fetched) <= Len(all)
     /\ \A k \in 1..Len(fetched) :
          /\ fetched[k] = all[k].g1
          /\ spans[k] = <<all[k].start, all[k].end>>
     /\ Len(responses) = (IF rpc = "fetching" THEN Len(fetched) - 1 ELSE Len(fetched))
     /\ rresult # NoValue <=> rpc = "returned"
     /\ rpc = "returned" => (Len(fetched) = Len(all) /\ Len(responses) = Len(fetched))

\* the request for the second of three macros is outstanding
C9_Witness ==
  /\ rpc = "fetching"
  /\ Len(AllMatches) = 3
  /\ Len(fetched) = 2
  /\ Len(responses) = 1
  /\ fetched = <<<<"diagram2">>, <<"diagram1">>>>
  /\ rresult = NoValue

(***************************************************************************)
(* The macro regions of sections 4.1 and 7 of the specification            *)
(***************************************************************************)
\* an opening structured-macro tag at s whose name attribute is gliffy, with or
\* without attributes after it: the index of its ">", or 0
GliffyTagEnd(text, s) ==
  LET e == IndexFrom(text, <<GT>>, s + 1)
  IN IF /\ s <= Len(text)
        /\ text[s] = SM
        /\ e # 0
        /\ \E i \in (s + 2)..(e - 1) : text[i] = NameGliffy
     THEN e ELSE 0

\* a gliffy macro at s: the opening tag, a parameter element called name, the
\* closing tag
GliffyRegionAt(text, s) ==
  LET e == GliffyTagEnd(text, s)
      p == IF e = 0 THEN 0 ELSE IndexFrom(text, <<ParamName, GT>>, e + 1)
      q == IF p = 0 THEN 0 ELSE IndexFrom(text, <<ParamEnd, GT>>, p + 2)
      r == IF q = 0 THEN 0 ELSE IndexFrom(text, <<SE, GT>>, q + 2)
  IN IF r = 0 THEN NoMatch
     ELSE [start |-> s, end |-> r + 1, g1 |-> SubSeq(text, p + 2, q - 1)]

\* the index of the ">" of the closing tag of the gliffy macro opened at s, when
\* there is no parameter element called name before that closing tag; else 0.
\* (The documents hold no nested macros: a macro's own closing tag is the first
\* one after its opening tag.)
MalformedEnd(text, s) ==
  LET e == GliffyTagEnd(text, s)
      c == IF e = 0 THEN 0 ELSE IndexFrom(text, <<SE, GT>>, e + 1)
      p == IF e = 0 THEN 0 ELSE IndexFrom(text, <<ParamName, GT>>, e + 1)
  IN IF c # 0 /\ (p = 0 \/ p > c) THEN c + 1 ELSE 0

\* C5 (miss handling): when the attachment of a matched macro is reported
\* absent, the match is replaced by the empty string and the call does not fail
\* there; the remaining matches are still gone through before the call returns.
C5_MissHandling ==
  /\ \A k \in 1..Len(responses) :
       ReportsAbsent(responses[k]) =>
         /\ ~(rpc = "failed" /\ k = Len(responses))
         /\ k <= Len(repls) /\ repls[k] = <<>>
  /\ rpc = "returned" =>
       /\ Len(spans) = Len(AllMatches)
       /\ Len(responses) = Len(spans)
       /\ rresult = <<Splice(markup, spans, repls, 1, 1)>>

\* C6 (match and replace): every gliffy macro with a name parameter, the one
\* with the opening tag <ac:structured-macro ac:name="gliffy"> included, is
\* matched unless it lies inside an earlier match, and an attachment that comes
\* back with text in it puts one code macro, language json, with that text as
\* CDATA body in the place of the match.
C6_MatchAndReplace ==
  /\ rpc = "returned" =>
       \A s \in 1..Len(markup) :
         (/\ GliffyRegionAt(markup, s) # NoMatch
          /\ ~\E k \in 1..Len(spans) : spans[k][1] < s /\ s <= spans[k][2])
           => \E k \in 1..Len(spans) : spans[k][1] = s
  /\ \A k \in 1..Len(repls) :
       responses[k].content # <<>> =>
         repls[k] = <<SM, SP, NameCode, GT, ParamLanguage, GT, "json", ParamEnd, GT,
                      BodyOpen, GT, CDataOpen>> \o responses[k].content
                      \o <<CDataEnd, GT, BodyEnd, GT, SE, GT>>

\* C7 (malformed reference): a gliffy macro without a name parameter lies
\* outside every match and is found in the returned markup as it was, and no
\* match holds more than one macro.
C7_MalformedUntouched ==
  rpc = "returned" =>
    /\ \A s \in 1..Len(markup) :
         MalformedEnd(markup, s) # 0 =>
           /\ \A k \in 1..Len(spans) :
                spans[k][2] < s \/ spans[k][1] > MalformedEnd(markup, s)
           /\ IndexFrom(rresult[1], SubSeq(markup, s, MalformedEnd(markup, s)), 1) # 0
    /\ \A k \in 1..Len(spans) :
         Cardinality({i \in spans[k][1]..spans[k][2] : markup[i] = SM}) = 1
====
